---- MODULE Spec2Model ----
(***************************************************************************)
(* The physics synchronisation pipeline of src/src/systems/physics.rs:     *)
(* a legion component store kept coherent with an nphysics2d backend.      *)
(*                                                                         *)
(* One execution of the schedule built by add_physics_systems is one tick. *)
(* Each system is one action; pc names the system that runs next.          *)
(*                                                                         *)
(* Command buffers.  Every legion system owns its own CommandBuffer, which *)
(* is the `commands` parameter handed to it.  add_component and            *)
(* remove_component only stage a command in that buffer.  The system       *)
(* flush_command_buffer (physics.rs:190-193) calls commands.flush(world)   *)
(* on ITS OWN parameter, a buffer nothing is ever staged in, so it applies *)
(* nothing of what the lifecycle systems staged.  Their buffers are        *)
(* applied when the schedule flushes, which the builder does once, after   *)
(* the last system (add_physics_systems never calls Builder::flush).       *)
(***************************************************************************)
EXTENDS Integers, FiniteSets, Sequences, TLC

\* ------------------------------------------------------------------ bounds
NumEntities == 2      \* entities of the component store
MaxTicks == 3         \* executions of the schedule
MaxEdits == 3         \* component edits made by the rest of the game
VEntities == 1        \* entities of the validation-only specification

Entities == 1..NumEntities

\* ------------------------------------------------------------ components
BodyTags == {"DynamicBody", "StaticBody", "DisabledBody"}
ShapeTags == {"CircleCollider", "SquareCollider"}
Kinematic == {"Position", "Velocity", "Orientation"}
Agentic == {"Speed", "Acceleration", "Force"}
Components == BodyTags \cup ShapeTags \cup Kinematic \cup Agentic

\* Payloads the rest of the game may give to a tag.
MassVals == {1, 2}
RadiusVals == {1}
SideVals == {4}

\* Kinematic component sets and values of the entities the game has built.
KinProfiles == { {"Position", "Velocity", "Orientation"}, {"Position"} }
PosInit == { <<1, 2>> }
VelInit == { <<0, 0>>, <<1, 0>> }
OriInit == { 270 }

\* f32::INFINITY, the non-finite value of a coordinate; no finite coordinate of
\* the model comes near it.
Infinity == 1000

\* Entities the game has built complete, tags included, with the velocities and
\* the Force component an EntityBuilder can give them.
BuiltProfiles ==
  { {"DynamicBody", "Position", "Velocity", "Orientation"},
    {"DynamicBody", "Position", "Velocity", "Orientation", "Force"},
    {"StaticBody", "Position"} }
VelBuilt == { <<0, 0>>, <<1, 0>>, <<Infinity, 0>> }

\* The absent handle component (Option::None of a TryRead / a filter miss).
NoHandle == 0
NoEntity == 0
NoPanic == [ent |-> NoEntity, msg |-> ""]

Systems ==
  { "validate_physics_entities", "make_body_handles", "remove_body_handles",
    "flush_command_buffer", "make_collider_handles", "remove_collider_handles",
    "physics_world_to_entity_world" }

\* The two systems that insert into the backend and stage a handle component.
CreationPasses == { "make_body_handles", "make_collider_handles" }

VARIABLES
  alive,       \* entities that exist in the component store
  comps,       \* comps[e]: the tag and kinematic components entity e carries
  mass,        \* mass[e]: DynamicBody.mass
  radius,      \* radius[e]: CircleCollider.radius
  side,        \* side[e]: SquareCollider.side_length
  pos,         \* pos[e]: Position.0
  vel,         \* vel[e]: Velocity.0
  ori,         \* ori[e]: Orientation.0, in degrees
  bh,          \* bh[e]: the BodyHandle component of e, or NoHandle
  ch,          \* ch[e]: the ColliderHandle component of e, or NoHandle
  changed,     \* entities whose BodyHandle was written since the pull query last ran
  bodies,      \* physics.bodies: live body handle -> rigid body
  colliders,   \* physics.colliders: live collider handle -> collider
  nextBody,    \* body handles issued so far
  nextCollider,\* collider handles issued so far
  cmds,        \* cmds[s]: the commands staged in the command buffer of system s
  pc,          \* the system the schedule runs next, "idle"/"end" between ticks
  tick,        \* schedule executions started
  edits,       \* component edits made so far
  panic,       \* the panic that ended the process, or NoPanic
  quiet        \* history: the creation passes since whose last run the store saw no
               \* component added or removed other than the handles they staged

vars ==
  << alive, comps, mass, radius, side, pos, vel, ori, bh, ch, changed, bodies,
     colliders, nextBody, nextCollider, cmds, pc, tick, edits, panic, quiet >>

ecsTags == << alive, comps, mass, radius, side >>
ecsKin == << pos, vel, ori >>
ecsHandles == << bh, ch, changed >>
backend == << bodies, colliders, nextBody, nextCollider >>

Has(e, c) == c \in comps[e]
HasBodyTag(e) == comps[e] \cap BodyTags # {}
HasShapeTag(e) == comps[e] \cap ShapeTags # {}

\* ------------------------------------------------------------ validation
\* The first loop without its Velocity branch.
DynamicViolation_NoVelocityCheck(cs) ==
  IF "Position" \notin cs THEN "missing Position in DynamicBody"
  ELSE IF "Orientation" \notin cs THEN "missing Orientation in DynamicBody"
  ELSE IF "StaticBody" \in cs
    THEN "There's a naughty StaticBody that really feels DynamicBody inside."
  ELSE ""

\* The first loop of validate_physics_entities, for one DynamicBody entity.
DynamicViolation(cs) ==
  IF "Position" \notin cs THEN "missing Position in DynamicBody"
  ELSE IF "Velocity" \notin cs THEN "missing Velocity in DynamicBody"
  ELSE IF "Orientation" \notin cs THEN "missing Orientation in DynamicBody"
  ELSE IF "StaticBody" \in cs
    THEN "There's a naughty StaticBody that really feels DynamicBody inside."
  ELSE ""

\* The second loop without its Force branch.
StaticViolation_NoForceCheck(cs) ==
  IF "Position" \notin cs THEN "missing Position in StaticBody"
  ELSE IF "Velocity" \in cs THEN "StaticBody can't have a Velocity component"
  ELSE IF "Speed" \in cs THEN "StaticBody can't have a Speed component"
  ELSE IF "Acceleration" \in cs THEN "StaticBody can't have a Acceleration component"
  ELSE ""

\* The second loop of validate_physics_entities, for one StaticBody entity.
StaticViolation(cs) ==
  IF "Position" \notin cs THEN "missing Position in StaticBody"
  ELSE IF "Velocity" \in cs THEN "StaticBody can't have a Velocity component"
  ELSE IF "Speed" \in cs THEN "StaticBody can't have a Speed component"
  ELSE IF "Acceleration" \in cs THEN "StaticBody can't have a Acceleration component"
  ELSE IF "Force" \in cs THEN "StaticBody can't have a Force component"
  ELSE ""

DynamicBad == { e \in alive : Has(e, "DynamicBody") /\ DynamicViolation(comps[e]) # "" }
StaticBad == { e \in alive : Has(e, "StaticBody") /\ StaticViolation(comps[e]) # "" }

\* What a panic message tells its reader: the component and body-kind names that
\* occur in the text of the message.  No message ever formats `ent`.
Named(msg) ==
  { w \in Components :
      \/ /\ w = "Position"
         /\ msg \in {"missing Position in DynamicBody", "missing Position in StaticBody"}
      \/ /\ w = "Velocity"
         /\ msg \in {"missing Velocity in DynamicBody",
                     "StaticBody can't have a Velocity component"}
      \/ /\ w = "Orientation"
         /\ msg = "missing Orientation in DynamicBody"
      \/ /\ w = "Speed"
         /\ msg = "StaticBody can't have a Speed component"
      \/ /\ w = "Acceleration"
         /\ msg = "StaticBody can't have a Acceleration component"
      \/ /\ w = "Force"
         /\ msg = "StaticBody can't have a Force component"
      \/ /\ w = "DynamicBody"
         /\ msg \in {"missing Position in DynamicBody", "missing Velocity in DynamicBody",
                     "missing Orientation in DynamicBody",
                     "There's a naughty StaticBody that really feels DynamicBody inside."}
      \/ /\ w = "StaticBody"
         /\ msg \in {"missing Position in StaticBody",
                     "StaticBody can't have a Velocity component",
                     "StaticBody can't have a Speed component",
                     "StaticBody can't have a Acceleration component",
                     "StaticBody can't have a Force component",
                     "There's a naughty StaticBody that really feels DynamicBody inside."} }

\* The entity identities a panic message prints: the loops bind `ent` and never use it.
NamedEntities(msg) == {}


\* -------------------------------------------------------- command buffers
AddCmd(c, e, h) == [op |-> "add", comp |-> c, ent |-> e, handle |-> h]
RemoveCmd(c, e) == [op |-> "remove", comp |-> c, ent |-> e, handle |-> NoHandle]
NoCmds == [s \in Systems |-> {}]

\* CommandBuffer::flush of one buffer, on the handle components of the store.
\* w is the record [bh, ch, changed]; a command for a despawned entity is dropped.
ApplyBuffer(w, buf) ==
  LET for(e, c) == { x \in buf : x.ent = e /\ x.comp = c /\ e \in alive }
      new(e, c, old) ==
        IF \E x \in for(e, c) : x.op = "add"
          THEN (CHOOSE x \in for(e, c) : x.op = "add").handle
        ELSE IF for(e, c) # {} THEN NoHandle
        ELSE old
  IN [ bh |-> [e \in Entities |-> new(e, "BodyHandle", w.bh[e])],
       ch |-> [e \in Entities |-> new(e, "ColliderHandle", w.ch[e])],
       changed |-> w.changed \cup
         { e \in Entities : \E x \in for(e, "BodyHandle") : x.op = "add" } ]

\* The order in which the schedule's flush visits the systems' buffers.
FlushOrder ==
  << "validate_physics_entities", "make_body_handles", "remove_body_handles",
     "flush_command_buffer", "make_collider_handles", "remove_collider_handles",
     "physics_world_to_entity_world" >>

RECURSIVE ApplyFrom(_, _)
ApplyFrom(w, i) ==
  IF i > Len(FlushOrder) THEN w
  ELSE ApplyFrom(ApplyBuffer(w, cmds[FlushOrder[i]]), i + 1)

\* Every enumeration of a set: the orders in which a query may visit its entities.
Orders(S) ==
  { o \in [1..Cardinality(S) -> S] : \A i, j \in 1..Cardinality(S) : i # j => o[i] # o[j] }

\* ------------------------------------------------------------ the backend
\* RigidBodyDesc::new() with the settings make_body_handles gives it, built.
BodyDesc(e) ==
  IF Has(e, "DynamicBody")
    THEN [status |-> "Dynamic", gravity |-> FALSE, mass |-> mass[e],
          pos |-> <<0, 0>>, vel |-> <<0, 0>>, ang |-> 0, owner |-> e]
  ELSE IF Has(e, "StaticBody")
    THEN [status |-> "Static", gravity |-> TRUE, mass |-> 0,
          pos |-> <<0, 0>>, vel |-> <<0, 0>>, ang |-> 0, owner |-> e]
  ELSE [status |-> "Disabled", gravity |-> TRUE, mass |-> 0,
        pos |-> <<0, 0>>, vel |-> <<0, 0>>, ang |-> 0, owner |-> e]

\* The shape built without halving the side length of a square.
ColliderDescOf_FullSide(e) ==
  IF Has(e, "CircleCollider")
    THEN [shape |-> "Ball", size |-> radius[e], body |-> bh[e], owner |-> e]
  ELSE [shape |-> "Cuboid", size |-> side[e], body |-> bh[e], owner |-> e]

\* The shape make_collider_handles builds, anchored to part 0 of the body.
ColliderDescOf(e) ==
  IF Has(e, "CircleCollider")
    THEN [shape |-> "Ball", size |-> radius[e], body |-> bh[e], owner |-> e]
  ELSE [shape |-> "Cuboid", size |-> side[e] \div 2, body |-> bh[e], owner |-> e]

\* cgmath::Rad::from(ori.0) stored as the rotation of an Isometry2 and read back
\* with rotation.angle(): the angle of a unit complex, in (-180, 180] degrees.
RotationAngle(deg) == ((deg + 179) % 360) - 179

\* f32 addition on the values the model uses: integers and f32::INFINITY.
Plus(a, b) == IF a = Infinity \/ b = Infinity THEN Infinity ELSE a + b

\* f32::is_finite, and the same for both coordinates of a vector.
IsFinite(x) == x # Infinity
FiniteVec(v) == IsFinite(v[1]) /\ IsFinite(v[2])

\* One fixed timestep of the mechanical world, in units of the timestep: no
\* gravity, no force generators, no joints; only Dynamic bodies move.
Stepped(b) ==
  IF b.status = "Dynamic"
    THEN [b EXCEPT !.pos = <<Plus(b.pos[1], b.vel[1]), Plus(b.pos[2], b.vel[2])>>]
  ELSE b


\* ---------------------------------------------------------------- Init
InitBackend ==
  /\ bodies = [h \in {} |-> NoHandle]
  /\ colliders = [h \in {} |-> NoHandle]
  /\ nextBody = 0
  /\ nextCollider = 0
  /\ cmds = NoCmds
  /\ bh = [e \in Entities |-> NoHandle]
  /\ ch = [e \in Entities |-> NoHandle]
  /\ changed = {}
  /\ panic = NoPanic
  /\ edits = 0
  /\ quiet = {}

\* PhysicsResource::default() and a store of entities that carry kinematic
\* components only; the game attaches and detaches tags between ticks.
Init ==
  /\ InitBackend
  /\ alive = Entities
  /\ comps \in [Entities -> KinProfiles]
  /\ mass = [e \in Entities |-> 0]
  /\ radius = [e \in Entities |-> 0]
  /\ side = [e \in Entities |-> 0]
  /\ pos \in [Entities -> PosInit]
  /\ vel \in [Entities -> VelInit]
  /\ \A e \in Entities : "Velocity" \notin comps[e] => vel[e] = <<0, 0>>
  /\ ori \in [Entities -> OriInit]
  /\ pc = "idle"
  /\ tick = 0

\* ------------------------------------------------- the rest of the game
Between == pc \in {"idle", "end"}

\* Another system attaches a body-kind or collider-shape tag to an entity.
EnvAddTag(e, c, v) ==
  /\ Between
  /\ edits < MaxEdits
  /\ e \in alive
  /\ c \notin comps[e]
  /\ comps' = [comps EXCEPT ![e] = @ \cup {c}]
  /\ mass' = IF c = "DynamicBody" THEN [mass EXCEPT ![e] = v] ELSE mass
  /\ radius' = IF c = "CircleCollider" THEN [radius EXCEPT ![e] = v] ELSE radius
  /\ side' = IF c = "SquareCollider" THEN [side EXCEPT ![e] = v] ELSE side
  /\ edits' = edits + 1
  /\ pc' = "idle"
  /\ quiet' = {}
  /\ UNCHANGED << alive, ecsKin, ecsHandles, backend, cmds, tick, panic >>

TagValues(c) ==
  IF c = "DynamicBody" THEN MassVals
  ELSE IF c = "CircleCollider" THEN RadiusVals
  ELSE IF c = "SquareCollider" THEN SideVals
  ELSE {0}

\* Another system detaches a tag.
EnvRemoveTag(e, c) ==
  /\ Between
  /\ edits < MaxEdits
  /\ e \in alive
  /\ c \in comps[e]
  /\ comps' = [comps EXCEPT ![e] = @ \ {c}]
  /\ mass' = IF c = "DynamicBody" THEN [mass EXCEPT ![e] = 0] ELSE mass
  /\ radius' = IF c = "CircleCollider" THEN [radius EXCEPT ![e] = 0] ELSE radius
  /\ side' = IF c = "SquareCollider" THEN [side EXCEPT ![e] = 0] ELSE side
  /\ edits' = edits + 1
  /\ pc' = "idle"
  /\ quiet' = {}
  /\ UNCHANGED << alive, ecsKin, ecsHandles, backend, cmds, tick, panic >>

\* Another system replaces a tag by another of its family between two ticks:
\* a body changes kind, a collider changes shape.
SameFamily(c, d) ==
  c # d /\ (({c, d} \subseteq BodyTags) \/ ({c, d} \subseteq ShapeTags))

EnvSwitchTag(e, c, d, v) ==
  /\ Between
  /\ edits < MaxEdits
  /\ e \in alive
  /\ SameFamily(c, d)
  /\ c \in comps[e]
  /\ d \notin comps[e]
  /\ comps' = [comps EXCEPT ![e] = (@ \ {c}) \cup {d}]
  /\ mass' = [mass EXCEPT ![e] = IF d = "DynamicBody" THEN v
                                 ELSE IF c = "DynamicBody" THEN 0 ELSE @]
  /\ radius' = [radius EXCEPT ![e] = IF d = "CircleCollider" THEN v
                                     ELSE IF c = "CircleCollider" THEN 0 ELSE @]
  /\ side' = [side EXCEPT ![e] = IF d = "SquareCollider" THEN v
                                 ELSE IF c = "SquareCollider" THEN 0 ELSE @]
  /\ edits' = edits + 1
  /\ pc' = "idle"
  /\ quiet' = {}
  /\ UNCHANGED << alive, ecsKin, ecsHandles, backend, cmds, tick, panic >>

\* Schedule::execute is called: the tick starts with the first system.
BeginTick ==
  /\ Between
  /\ tick < MaxTicks
  /\ tick' = tick + 1
  /\ pc' = "validate_physics_entities"
  /\ UNCHANGED << ecsTags, ecsKin, ecsHandles, backend, cmds, edits, panic, quiet >>

\* ------------------------------------------------------------ the systems
\* validate_physics_entities: every DynamicBody entity, then every StaticBody
\* entity; the first violation met panics, in whatever order the query visits.
ValidateVerdict_DynamicLoopOnly ==
  IF DynamicBad # {}
    THEN { [ent |-> e, msg |-> DynamicViolation(comps[e])] : e \in DynamicBad }
  ELSE { NoPanic }

\* The validation that runs its StaticBody loop before its DynamicBody loop.
ValidateVerdict_StaticLoopFirst ==
  IF StaticBad # {}
    THEN { [ent |-> e, msg |-> StaticViolation(comps[e])] : e \in StaticBad }
  ELSE IF DynamicBad # {}
    THEN { [ent |-> e, msg |-> DynamicViolation(comps[e])] : e \in DynamicBad }
  ELSE { NoPanic }

ValidateVerdict ==
  IF DynamicBad # {}
    THEN { [ent |-> e, msg |-> DynamicViolation(comps[e])] : e \in DynamicBad }
  ELSE IF StaticBad # {}
    THEN { [ent |-> e, msg |-> StaticViolation(comps[e])] : e \in StaticBad }
  ELSE { NoPanic }

\* The validation that also resets the Orientation of every dynamic entity.
ValidatePhysicsEntities_ResetsOrientation ==
  /\ pc = "validate_physics_entities"
  /\ \E v \in ValidateVerdict :
       /\ panic' = v
       /\ pc' = IF v = NoPanic THEN "make_body_handles" ELSE "panicked"
  /\ ori' = [e \in Entities |-> IF Has(e, "DynamicBody") THEN 0 ELSE ori[e]]
  /\ UNCHANGED << ecsTags, pos, vel, ecsHandles, backend, cmds, tick, edits, quiet >>

ValidatePhysicsEntities ==
  /\ pc = "validate_physics_entities"
  /\ \E v \in ValidateVerdict :
       /\ panic' = v
       /\ pc' = IF v = NoPanic THEN "make_body_handles" ELSE "panicked"
  /\ UNCHANGED << ecsTags, ecsKin, ecsHandles, backend, cmds, tick, edits, quiet >>

\* The body filter without its !component::<BodyHandle>() term.
NeedsBody_IgnoresHandle(e) == e \in alive /\ HasBodyTag(e)

\* The filter of make_body_handles.
NeedsBody(e) == e \in alive /\ HasBodyTag(e) /\ bh[e] = NoHandle

MakeBodyHandles ==
  /\ pc = "make_body_handles"
  /\ \E o \in Orders({ e \in Entities : NeedsBody(e) }) :
       /\ bodies' = [ h \in DOMAIN bodies \cup { nextBody + i : i \in DOMAIN o } |->
                        IF h \in DOMAIN bodies THEN bodies[h]
                        ELSE BodyDesc(o[h - nextBody]) ]
       /\ nextBody' = nextBody + Len(o)
       /\ cmds' = [cmds EXCEPT !["make_body_handles"] =
                     @ \cup { AddCmd("BodyHandle", o[i], nextBody + i) : i \in DOMAIN o }]
  /\ pc' = "remove_body_handles"
  /\ UNCHANGED << ecsTags, ecsKin, ecsHandles, colliders, nextCollider,
                  tick, edits, panic, quiet >>

\* The filter of remove_body_handles.
StaleBody(e) == e \in alive /\ bh[e] # NoHandle /\ ~HasBodyTag(e)

\* remove_body_handles without its physics.bodies.remove call.
RemoveBodyHandles_KeepsBody ==
  /\ pc = "remove_body_handles"
  /\ cmds' = [cmds EXCEPT !["remove_body_handles"] =
                @ \cup { RemoveCmd("BodyHandle", e) : e \in { x \in Entities : StaleBody(x) } }]
  /\ pc' = "flush_command_buffer_1"
  /\ UNCHANGED << ecsTags, ecsKin, ecsHandles, backend, tick, edits, panic, quiet >>

RemoveBodyHandles ==
  /\ pc = "remove_body_handles"
  /\ LET gone == { bh[e] : e \in { x \in Entities : StaleBody(x) } }
     IN bodies' = [ h \in DOMAIN bodies \ gone |-> bodies[h] ]
  /\ cmds' = [cmds EXCEPT !["remove_body_handles"] =
                @ \cup { RemoveCmd("BodyHandle", e) : e \in { x \in Entities : StaleBody(x) } }]
  /\ pc' = "flush_command_buffer_1"
  /\ UNCHANGED << ecsTags, ecsKin, ecsHandles, colliders, nextBody, nextCollider,
                  tick, edits, panic, quiet >>

\* flush_command_buffer: flushes the buffer of the flush system itself.
FlushCommandBuffer(here, next) ==
  /\ pc = here
  /\ LET w == ApplyBuffer([bh |-> bh, ch |-> ch, changed |-> changed],
                          cmds["flush_command_buffer"])
     IN /\ bh' = w.bh
        /\ ch' = w.ch
        /\ changed' = w.changed
  /\ cmds' = [cmds EXCEPT !["flush_command_buffer"] = {}]
  /\ pc' = next
  /\ UNCHANGED << ecsTags, ecsKin, backend, tick, edits, panic, quiet >>

\* The first barrier in a schedule that registers no collider passes after it.
FlushAfterBodies_SkipsColliderPasses ==
  FlushCommandBuffer("flush_command_buffer_1", "garbage")

FlushAfterBodies == FlushCommandBuffer("flush_command_buffer_1", "make_collider_handles")
FlushAfterColliders == FlushCommandBuffer("flush_command_buffer_2", "garbage")

\* The collider filter without its !component::<ColliderHandle>() term.
NeedsCollider_IgnoresHandle(e) == e \in alive /\ HasShapeTag(e) /\ bh[e] # NoHandle

\* The filter and the required BodyHandle parameter of make_collider_handles.
NeedsCollider(e) ==
  e \in alive /\ HasShapeTag(e) /\ ch[e] = NoHandle /\ bh[e] # NoHandle

MakeColliderHandles ==
  /\ pc = "make_collider_handles"
  /\ \E o \in Orders({ e \in Entities : NeedsCollider(e) }) :
       /\ colliders' = [ h \in DOMAIN colliders \cup { nextCollider + i : i \in DOMAIN o } |->
                           IF h \in DOMAIN colliders THEN colliders[h]
                           ELSE ColliderDescOf(o[h - nextCollider]) ]
       /\ nextCollider' = nextCollider + Len(o)
       /\ cmds' = [cmds EXCEPT !["make_collider_handles"] =
                     @ \cup { AddCmd("ColliderHandle", o[i], nextCollider + i) : i \in DOMAIN o }]
  /\ pc' = "remove_collider_handles"
  /\ UNCHANGED << ecsTags, ecsKin, ecsHandles, bodies, nextBody, tick, edits, panic, quiet >>

\* The filter of remove_collider_handles.
StaleCollider(e) == e \in alive /\ ch[e] # NoHandle /\ ~HasShapeTag(e)

RemoveColliderHandles ==
  /\ pc = "remove_collider_handles"
  /\ LET gone == { ch[e] : e \in { x \in Entities : StaleCollider(x) } }
     IN colliders' = [ h \in DOMAIN colliders \ gone |-> colliders[h] ]
  /\ cmds' = [cmds EXCEPT !["remove_collider_handles"] =
                @ \cup { RemoveCmd("ColliderHandle", e) :
                           e \in { x \in Entities : StaleCollider(x) } }]
  /\ pc' = "flush_command_buffer_2"
  /\ UNCHANGED << ecsTags, ecsKin, ecsHandles, bodies, nextBody, nextCollider,
                  tick, edits, panic, quiet >>


\* Another system deletes an entity; its components go with it, the backend
\* resources its handles referred to stay behind.
EnvDespawn(e) ==
  /\ Between
  /\ edits < MaxEdits
  /\ e \in alive
  /\ alive' = alive \ {e}
  /\ comps' = [comps EXCEPT ![e] = {}]
  /\ mass' = [mass EXCEPT ![e] = 0]
  /\ radius' = [radius EXCEPT ![e] = 0]
  /\ side' = [side EXCEPT ![e] = 0]
  /\ pos' = [pos EXCEPT ![e] = <<0, 0>>]
  /\ vel' = [vel EXCEPT ![e] = <<0, 0>>]
  /\ ori' = [ori EXCEPT ![e] = 0]
  /\ bh' = [bh EXCEPT ![e] = NoHandle]
  /\ ch' = [ch EXCEPT ![e] = NoHandle]
  /\ changed' = changed \ {e}
  /\ edits' = edits + 1
  /\ pc' = "idle"
  /\ quiet' = {}
  /\ UNCHANGED << backend, cmds, tick, panic >>

\* The sweep restricted to the body table.
Garbage_BodiesOnly ==
  /\ pc = "garbage"
  /\ bodies' = [ h \in { x \in DOMAIN bodies : bodies[x].owner \in alive } |-> bodies[h] ]
  /\ pc' = "entity_world_to_physics_world"
  /\ UNCHANGED << ecsTags, ecsKin, ecsHandles, colliders, nextBody, nextCollider, cmds,
                  tick, edits, panic, quiet >>

\* garbage: the defensive sweep; releases every backend body and collider that
\* was made for an entity which no longer exists.
Garbage ==
  /\ pc = "garbage"
  /\ bodies' = [ h \in { x \in DOMAIN bodies : bodies[x].owner \in alive } |-> bodies[h] ]
  /\ colliders' =
       [ h \in { x \in DOMAIN colliders : colliders[x].owner \in alive } |-> colliders[h] ]
  /\ pc' = "entity_world_to_physics_world"
  /\ UNCHANGED << ecsTags, ecsKin, ecsHandles, nextBody, nextCollider, cmds,
                  tick, edits, panic, quiet >>

\* The query of entity_world_to_physics_world: Read of all four, filter DynamicBody.
Pushed(e) ==
  /\ e \in alive
  /\ bh[e] # NoHandle
  /\ Kinematic \subseteq comps[e]
  /\ Has(e, "DynamicBody")

\* The push without its set_linear_velocity call.
PushedBody_NoVelocity(b, e) ==
  [b EXCEPT !.pos = pos[e], !.ang = RotationAngle(ori[e])]

\* set_position(Isometry2::new(pos, rad(ori))) and set_linear_velocity(vel).
PushedBody(b, e) ==
  [b EXCEPT !.pos = pos[e], !.ang = RotationAngle(ori[e]), !.vel = vel[e]]

\* The push that keeps in the body set only the bodies it wrote to.
EntityWorldToPhysicsWorld_KeepsPushedOnly ==
  /\ pc = "entity_world_to_physics_world"
  /\ bodies' = [ h \in { bh[e] : e \in { x \in Entities : Pushed(x) } } \cap DOMAIN bodies |->
                   PushedBody(bodies[h], CHOOSE e \in Entities : Pushed(e) /\ bh[e] = h) ]
  /\ pc' = "step_physics_world"
  /\ UNCHANGED << ecsTags, ecsKin, ecsHandles, colliders, nextBody, nextCollider,
                  cmds, tick, edits, panic, quiet >>

EntityWorldToPhysicsWorld ==
  /\ pc = "entity_world_to_physics_world"
  /\ \E o \in Orders({ e \in Entities : Pushed(e) }) :
       bodies' = [ h \in DOMAIN bodies |->
                     LET is == { i \in DOMAIN o : bh[o[i]] = h }
                     IN IF is = {} THEN bodies[h]
                        ELSE PushedBody(bodies[h], o[CHOOSE i \in is : \A j \in is : j <= i]) ]
  /\ pc' = "step_physics_world"
  /\ UNCHANGED << ecsTags, ecsKin, ecsHandles, colliders, nextBody, nextCollider,
                  cmds, tick, edits, panic, quiet >>

\* The colliders whose body is in the body set.
Attached == { h \in DOMAIN colliders : colliders[h].body \in DOMAIN bodies }

\* What the step may leave of the collider set: the mechanical world's
\* maintenance drops the colliders attached to a body that was removed from the
\* body set; whether the backend in use does so is not fixed by this repository,
\* so both outcomes are kept.
SteppedColliders ==
  { colliders, [ h \in Attached |-> colliders[h] ] }

\* step_physics_world.
StepPhysicsWorld ==
  /\ pc = "step_physics_world"
  /\ bodies' = [ h \in DOMAIN bodies |-> Stepped(bodies[h]) ]
  /\ colliders' \in SteppedColliders
  /\ pc' = "physics_world_to_entity_world"
  /\ UNCHANGED << ecsTags, ecsKin, ecsHandles, nextBody, nextCollider,
                  cmds, tick, edits, panic, quiet >>

\* The pull query without its DynamicBody filter.
PullCandidate_AnyBody(e) == e \in alive /\ bh[e] # NoHandle

\* The query of physics_world_to_entity_world without its change filter:
\* Read<BodyHandle> and filter DynamicBody.
PullCandidate(e) == e \in alive /\ bh[e] # NoHandle /\ Has(e, "DynamicBody")

\* The entities the query may yield.  maybe_changed::<BodyHandle>() passes every
\* entity whose BodyHandle was written since the query last ran and may pass any
\* other candidate (the filter is conservative, and the query is built anew on
\* every run of the system).
PullSets ==
  { S \in SUBSET { e \in Entities : PullCandidate(e) } :
      \A e \in Entities : PullCandidate(e) /\ e \in changed => e \in S }

\* The loop that gives up on every entity once one handle names no body.
Pulls_AbortsOnStale(S, e, c) ==
  /\ e \in S /\ bh[e] \in DOMAIN bodies /\ Has(e, c)
  /\ \A f \in alive : bh[f] # NoHandle => bh[f] \in DOMAIN bodies

\* Whether the loop body writes component c of entity e, visited in set S.
Pulls(S, e, c) == e \in S /\ bh[e] \in DOMAIN bodies /\ Has(e, c)

PhysicsWorldToEntityWorld ==
  /\ pc = "physics_world_to_entity_world"
  /\ \E S \in PullSets :
       /\ pos' = [e \in Entities |->
                    IF Pulls(S, e, "Position") THEN bodies[bh[e]].pos ELSE pos[e]]
       /\ vel' = [e \in Entities |->
                    IF Pulls(S, e, "Velocity") THEN bodies[bh[e]].vel ELSE vel[e]]
       /\ ori' = [e \in Entities |->
                    IF Pulls(S, e, "Orientation") THEN bodies[bh[e]].ang ELSE ori[e]]
  /\ changed' = {}
  /\ pc' = "schedule_flush"
  /\ UNCHANGED << ecsTags, bh, ch, backend, cmds, tick, edits, panic, quiet >>

\* The flush at the end of the schedule: every system's buffer, in system order.
ScheduleFlush ==
  /\ pc = "schedule_flush"
  /\ LET w == ApplyFrom([bh |-> bh, ch |-> ch, changed |-> changed], 1)
     IN /\ bh' = w.bh
        /\ ch' = w.ch
        /\ changed' = w.changed
  /\ cmds' = NoCmds
  /\ quiet' = { p \in CreationPasses : \A s \in Systems \ {p} : cmds[s] = {} }
  /\ pc' = "end"
  /\ UNCHANGED << ecsTags, ecsKin, backend, tick, edits, panic >>

\* ------------------------------------------------------- specifications
Tick ==
  \/ BeginTick
  \/ ValidatePhysicsEntities
  \/ MakeBodyHandles
  \/ RemoveBodyHandles
  \/ FlushAfterBodies
  \/ MakeColliderHandles
  \/ RemoveColliderHandles
  \/ FlushAfterColliders
  \/ Garbage
  \/ EntityWorldToPhysicsWorld
  \/ StepPhysicsWorld
  \/ PhysicsWorldToEntityWorld
  \/ ScheduleFlush

Next ==
  \/ Tick
  \/ \E e \in Entities, c \in BodyTags \cup ShapeTags :
       \E v \in TagValues(c) : EnvAddTag(e, c, v)
  \/ \E e \in Entities, c \in BodyTags \cup ShapeTags : EnvRemoveTag(e, c)
  \/ \E e \in Entities : EnvDespawn(e)
  \/ \E e \in Entities, c, d \in BodyTags \cup ShapeTags :
       \E v \in TagValues(d) : EnvSwitchTag(e, c, d, v)

Spec == Init /\ [][Next]_vars


\* Validation alone, on every component set an entity may carry: the state is
\* the store as validate_physics_entities finds it at the start of a tick.
ValidatedComponents == BodyTags \cup Kinematic \cup Agentic

InitV ==
  /\ InitBackend
  /\ alive = 1..VEntities
  /\ \E f \in [1..VEntities -> SUBSET ValidatedComponents] :
       comps = [e \in Entities |-> IF e \in 1..VEntities THEN f[e] ELSE {}]
  /\ mass = [e \in Entities |-> IF "DynamicBody" \in comps[e] THEN 1 ELSE 0]
  /\ radius = [e \in Entities |-> 0]
  /\ side = [e \in Entities |-> 0]
  /\ pos = [e \in Entities |-> <<0, 0>>]
  /\ vel = [e \in Entities |-> <<0, 0>>]
  /\ ori = [e \in Entities |-> 0]
  /\ pc = "validate_physics_entities"
  /\ tick = 1

NextV == ValidatePhysicsEntities

SpecV == InitV /\ [][NextV]_vars

\* The pipeline alone, on a store of entities that were built with their tags
\* and keep them: what push, step and pull do to the kinematic components.
InitK ==
  /\ InitBackend
  /\ alive = Entities
  /\ comps \in [Entities -> BuiltProfiles]
  /\ mass \in [Entities -> MassVals \cup {0}]
  /\ \A e \in Entities : mass[e] = 0 <=> "DynamicBody" \notin comps[e]
  /\ radius = [e \in Entities |-> 0]
  /\ side = [e \in Entities |-> 0]
  /\ pos \in [Entities -> PosInit]
  /\ vel \in [Entities -> VelBuilt]
  /\ \A e \in Entities : "Velocity" \notin comps[e] => vel[e] = <<0, 0>>
  /\ ori \in [Entities -> OriInit]
  /\ pc = "idle"
  /\ tick = 0

NextK == Tick

\* The whole game on a store whose entities were built either bare or as
\* static bodies with a circle collider, before the first tick.
TaggedProfiles == { {"Position"}, {"StaticBody", "Position", "CircleCollider"} }

InitL ==
  /\ InitBackend
  /\ alive = Entities
  /\ comps \in [Entities -> TaggedProfiles]
  /\ mass = [e \in Entities |-> 0]
  /\ radius \in [Entities -> RadiusVals \cup {0}]
  /\ \A e \in Entities : radius[e] = 0 <=> "CircleCollider" \notin comps[e]
  /\ side = [e \in Entities |-> 0]
  /\ pos \in [Entities -> PosInit]
  /\ vel = [e \in Entities |-> <<0, 0>>]
  /\ ori \in [Entities -> OriInit]
  /\ pc = "idle"
  /\ tick = 0

SpecL == InitL /\ [][Next]_vars

SpecK == InitK /\ [][NextK]_vars

\* ------------------------------------------------------------------ claims
Validated == pc \in {"make_body_handles", "panicked"}
TickEnd == pc = "end"

\* C1: at the end of every completed tick, every entity that has a
\* ColliderHandle also has a BodyHandle.
C1_ColliderImpliesBody ==
  TickEnd => \A e \in alive : ch[e] # NoHandle => bh[e] # NoHandle

LifecycleOver ==
  pc \in { "garbage", "entity_world_to_physics_world", "step_physics_world",
           "physics_world_to_entity_world", "schedule_flush", "end" }

\* C2: at the end of every tick an entity has a BodyHandle iff it carries a
\* body-kind tag; and already once the lifecycle stages and their barriers are
\* over, a tagged entity has its BodyHandle and an untagged one has none.
C2_BodyHandleTracksTag ==
  LifecycleOver => \A e \in alive : bh[e] # NoHandle <=> HasBodyTag(e)

\* C3: at the end of every tick an entity has a ColliderHandle iff it carries
\* a collider-shape tag and has a BodyHandle.
C3_ColliderHandleIff ==
  TickEnd => \A e \in alive : ch[e] # NoHandle <=> (HasShapeTag(e) /\ bh[e] # NoHandle)

C5_DynamicNeedsKinematics ==
  Validated =>
    /\ (\E e \in alive : Has(e, "DynamicBody") /\ ~(Kinematic \subseteq comps[e]))
         => pc = "panicked"
    /\ \A e \in alive :
         ( /\ panic.ent = e
           /\ Has(e, "DynamicBody")
           /\ comps[e] \cap Kinematic = {"Position", "Orientation"} )
         => panic.msg = "missing Velocity in DynamicBody"

C5_Witness ==
  /\ pc = "panicked"
  /\ panic.ent \in alive
  /\ Has(panic.ent, "DynamicBody")
  /\ comps[panic.ent] \cap Kinematic = {"Position", "Orientation"}
  /\ panic.msg = "missing Velocity in DynamicBody"

\* C6: whenever validation passes, no entity carries more than one of
\* DynamicBody, StaticBody, DisabledBody.
C6_BodyTagsExclusive ==
  pc = "make_body_handles" => \A e \in alive : Cardinality(comps[e] \cap BodyTags) <= 1

StaticForbidden == {"Velocity", "Speed", "Acceleration", "Force"}
StaticOk(e) == Has(e, "Position") /\ comps[e] \cap StaticForbidden = {}

\* C7: validation fails whenever a StaticBody entity lacks Position or carries
\* Velocity, Speed, Acceleration or Force; a StaticBody entity with Position
\* and none of the four is never what the static check reports, and a store
\* whose only body-tagged entities are such entities passes.
C7_StaticRules ==
  Validated =>
    /\ (\E e \in alive : Has(e, "StaticBody") /\ ~StaticOk(e)) => pc = "panicked"
    /\ \A e \in alive :
         (Has(e, "StaticBody") /\ StaticOk(e) /\ panic.ent = e) => Has(e, "DynamicBody")
    /\ (\A e \in alive : ~Has(e, "DynamicBody") /\ (Has(e, "StaticBody") => StaticOk(e)))
         => pc = "make_body_handles"

C7_Witness ==
  /\ pc = "make_body_handles"
  /\ \E e \in alive : Has(e, "StaticBody") /\ StaticOk(e) /\ Has(e, "Orientation")

\* C8: every validation failure reports the identity of the offending entity,
\* the offending or missing component, and the body kind.
C8_FailureNamesAllThree ==
  pc = "panicked" =>
    /\ panic.ent \in NamedEntities(panic.msg)
    /\ \E c \in Named(panic.msg), k \in Named(panic.msg) \cap BodyTags : c # k

\* C9: at the end of every tick, every DynamicBody entity whose BodyHandle
\* refers to a live backend body has Position, Velocity and Orientation equal
\* to that body's position, linear velocity and orientation.
C9_DynamicBackendAuthoritative ==
  TickEnd =>
    \A e \in alive :
      (Has(e, "DynamicBody") /\ bh[e] \in DOMAIN bodies) =>
        /\ Has(e, "Position") => pos[e] = bodies[bh[e]].pos
        /\ Has(e, "Velocity") => vel[e] = bodies[bh[e]].vel
        /\ Has(e, "Orientation") => ori[e] = bodies[bh[e]].ang

EcsAuthoritative(e) ==
  (Has(e, "StaticBody") \/ Has(e, "DisabledBody")) /\ ~Has(e, "DynamicBody")

\* C10: the pull-back stage never changes Position, Velocity or Orientation of
\* an entity that carries StaticBody or DisabledBody and no DynamicBody.
C10_StaticNeverPulled ==
  [][ pc = "physics_world_to_entity_world" =>
        \A e \in alive :
          EcsAuthoritative(e) => (pos'[e] = pos[e] /\ vel'[e] = vel[e] /\ ori'[e] = ori[e]) ]_vars

C10_Witness ==
  /\ pc = "schedule_flush"
  /\ \E e \in alive :
       /\ EcsAuthoritative(e)
       /\ bh[e] \in DOMAIN bodies
       /\ bodies[bh[e]].pos # pos[e]

\* The shape make_collider_handles builds for a shape tag.
ShapeFor(c) == IF c = "CircleCollider" THEN "Ball" ELSE "Cuboid"

\* C11: after an entity that has a ColliderHandle switched its shape tag
\* between two ticks, the next tick ends with its ColliderHandle referring to
\* a collider of the new shape.
C11_SwitchedShapeRebuilt ==
  TickEnd =>
    \A e \in alive : \A c \in ShapeTags :
      (comps[e] \cap ShapeTags = {c} /\ ch[e] \in DOMAIN colliders)
        => colliders[ch[e]].shape = ShapeFor(c)

\* The live backend colliders that were made for entity e.
LiveCollidersOf(e) == { h \in DOMAIN colliders : colliders[h].owner = e }

\* C12: in every reachable state, at most one live backend collider exists
\* that was created for any one entity.
C12_OneLiveColliderPerEntity ==
  \A e \in Entities : Cardinality(LiveCollidersOf(e)) <= 1

C12_Witness ==
  /\ TickEnd
  /\ \E e \in alive : \E c \in ShapeTags :
       /\ comps[e] \cap ShapeTags = {c}
       /\ ch[e] \in LiveCollidersOf(e)
       /\ colliders[ch[e]].shape # ShapeFor(c)

\* C13: when a creation pass runs again and, since its previous run, no
\* component was added or removed other than the handles that run staged, the
\* second run inserts nothing into the backend and stages no handle component.
C13_CreationIdempotent ==
  [][ /\ (pc = "make_body_handles" /\ "make_body_handles" \in quiet)
          => UNCHANGED << bodies, nextBody, cmds >>
      /\ (pc = "make_collider_handles" /\ "make_collider_handles" \in quiet)
          => UNCHANGED << colliders, nextCollider, cmds >> ]_vars

C13_Witness ==
  /\ pc = "remove_body_handles"
  /\ "make_body_handles" \in quiet
  /\ \E e \in changed : HasBodyTag(e) /\ bh[e] \in DOMAIN bodies
  /\ cmds = NoCmds

\* The entities whose BodyHandle component refers to backend body h.
BodyHolders(h) == { e \in alive : bh[e] = h }

\* C14: at the end of every tick, every body in the backend body table is
\* referenced by the BodyHandle of exactly one entity, and there are as many
\* backend bodies as entities with a BodyHandle.
C14_BodiesNeitherLeakNorDuplicate ==
  TickEnd =>
    /\ \A h \in DOMAIN bodies : Cardinality(BodyHolders(h)) = 1
    /\ Cardinality(DOMAIN bodies) = Cardinality({ e \in alive : bh[e] # NoHandle })

C14_Witness ==
  /\ TickEnd
  /\ tick >= 2
  /\ nextBody >= 2
  /\ Cardinality(DOMAIN bodies) = 1
  /\ \E e \in alive : bh[e] \in DOMAIN bodies
  /\ \E e \in alive : bh[e] = NoHandle /\ ~HasBodyTag(e)

\* C15: while the push and the pull stage run, every BodyHandle component
\* present on an entity refers to a body that is live in the backend.
C15_HandlesSettledAtPushPull ==
  pc \in {"entity_world_to_physics_world", "physics_world_to_entity_world"} =>
    \A e \in alive : bh[e] # NoHandle => bh[e] \in DOMAIN bodies

\* The stages of a tick that run after the garbage-collect stage.
AfterGarbage ==
  pc \in { "entity_world_to_physics_world", "step_physics_world",
           "physics_world_to_entity_world", "schedule_flush", "end" }

\* C16: after the garbage-collect stage of a tick, no backend body and no
\* backend collider remains that was made for an entity which no longer exists.
C16_NoOrphansAfterGarbage ==
  AfterGarbage =>
    /\ \A h \in DOMAIN bodies : bodies[h].owner \in alive
    /\ \A h \in DOMAIN colliders : colliders[h].owner \in alive

C16_Witness ==
  /\ pc = "entity_world_to_physics_world"
  /\ tick = 2
  /\ alive # Entities
  /\ nextBody = 1
  /\ DOMAIN bodies = {}
  /\ cmds["remove_body_handles"] = {}

\* The order of the stages within a tick, as the specification lists it.
StageOrder ==
  << "validate_physics_entities", "make_body_handles", "remove_body_handles",
     "flush_command_buffer_1", "make_collider_handles", "remove_collider_handles",
     "flush_command_buffer_2", "garbage", "entity_world_to_physics_world",
     "step_physics_world", "physics_world_to_entity_world" >>

C18_BothHandlesInOneTick ==
  TickEnd =>
    \A e \in alive :
      (HasBodyTag(e) /\ HasShapeTag(e)) =>
        /\ bh[e] # NoHandle
        /\ ch[e] \in DOMAIN colliders
        /\ colliders[ch[e]].body = bh[e]

LifecycleStages ==
  { "make_body_handles", "remove_body_handles",
    "make_collider_handles", "remove_collider_handles" }

\* The handle components after the commands staged by systems s and t took effect.
Committed(s, t) ==
  ApplyBuffer(ApplyBuffer([bh |-> bh, ch |-> ch, changed |-> changed], cmds[s]), cmds[t])

\* C19: a lifecycle stage leaves the BodyHandle and ColliderHandle components
\* of every entity as they are, and the additions and removals it staged take
\* effect at the barrier that follows it.
C19_StagedUntilBarrier ==
  [][ /\ pc \in LifecycleStages => UNCHANGED << bh, ch >>
      /\ pc = "flush_command_buffer_1"
           => bh' = Committed("make_body_handles", "remove_body_handles").bh
      /\ pc = "flush_command_buffer_2"
           => ch' = Committed("make_collider_handles", "remove_collider_handles").ch ]_vars

\* Two angles in degrees that denote the same orientation.
SameOrientation(a, b) == (a - b) % 360 = 0

\* C20: the push stage leaves the backend body of every entity that has
\* DynamicBody, a live BodyHandle, Position, Velocity and Orientation with the
\* entity's position, linear velocity and orientation, and leaves the body of
\* every entity without DynamicBody as it was.
C20_PushCopiesDynamicOnly ==
  [][ pc = "entity_world_to_physics_world" =>
        \A e \in alive :
          bh[e] \in DOMAIN bodies =>
            /\ (Has(e, "DynamicBody") /\ Kinematic \subseteq comps[e]) =>
                 /\ bodies'[bh[e]].pos = pos[e]
                 /\ bodies'[bh[e]].vel = vel[e]
                 /\ SameOrientation(bodies'[bh[e]].ang, ori[e])
            /\ ~Has(e, "DynamicBody") => bodies'[bh[e]] = bodies[bh[e]] ]_vars

C20_Witness ==
  /\ pc = "step_physics_world"
  /\ \E e \in alive :
       /\ Pushed(e)
       /\ bh[e] \in DOMAIN bodies
       /\ vel[e] # <<0, 0>>
       /\ bodies[bh[e]].pos = pos[e]
       /\ bodies[bh[e]].vel = vel[e]
       /\ bodies[bh[e]].ang # ori[e]
  /\ \E f \in alive : ~Has(f, "DynamicBody") /\ bh[f] \in DOMAIN bodies

\* C21: the backend body of a static or disabled entity has the position the
\* entity's Position component gives.
C21_StaticBodyAtEntityPosition ==
  \A e \in alive :
    ( /\ bh[e] \in DOMAIN bodies
      /\ bodies[bh[e]].owner = e
      /\ bodies[bh[e]].status \in {"Static", "Disabled"}
      /\ (Has(e, "StaticBody") \/ Has(e, "DisabledBody"))
      /\ Has(e, "Position") )
      => bodies[bh[e]].pos = pos[e]

\* C22: when the pull stage finds a non-finite linear velocity on the body of
\* a dynamic entity, it sets the entity's Velocity to zero and leaves its
\* Position as it was; it never stores a non-finite Velocity.
C22_NonFiniteVelocityClamped ==
  [][ pc = "physics_world_to_entity_world" =>
        \A e \in alive :
          ( /\ PullCandidate(e)
            /\ bh[e] \in DOMAIN bodies
            /\ Has(e, "Velocity")
            /\ ~FiniteVec(bodies[bh[e]].vel) )
            => (vel'[e] = <<0, 0>> /\ pos'[e] = pos[e]) ]_vars

\* The stages that may insert into or remove from the backend tables.
TableOwners == LifecycleStages \cup { "garbage", "step_physics_world" }

\* C23: a backend body or collider is inserted or removed only by a
\* handle-lifecycle stage or the stepper, never by validate, push or pull, and
\* the pull stage leaves the whole backend as it was.
C23_BackendTablesOwned ==
  [][ /\ (DOMAIN bodies' # DOMAIN bodies \/ DOMAIN colliders' # DOMAIN colliders
            \/ nextBody' # nextBody \/ nextCollider' # nextCollider)
          => pc \in TableOwners
      /\ pc = "physics_world_to_entity_world" => UNCHANGED backend ]_vars

C23_Witness ==
  /\ pc = "schedule_flush"
  /\ DOMAIN colliders # {}
  /\ \E e \in alive :
       /\ Has(e, "DynamicBody")
       /\ bh[e] \in DOMAIN bodies
       /\ pos[e] = bodies[bh[e]].pos
       /\ pos[e] \notin PosInit
  /\ \E f \in alive : ~Has(f, "DynamicBody") /\ bh[f] \in DOMAIN bodies

\* The stages from validation up to and including the push.
ValidateToPush ==
  { "validate_physics_entities", "make_body_handles", "remove_body_handles",
    "flush_command_buffer_1", "make_collider_handles", "remove_collider_handles",
    "flush_command_buffer_2", "garbage", "entity_world_to_physics_world" }

\* C24: from the validate stage to the end of the push stage of a tick, no
\* entity is deleted and no body-kind tag, collider-shape tag, Position,
\* Velocity or Orientation is added, removed or modified.
C24_PushSeesValidatedValues ==
  [][ (pc \in ValidateToPush) => UNCHANGED << ecsTags, ecsKin >> ]_vars

C24_Witness ==
  /\ pc = "step_physics_world"
  /\ cmds["make_collider_handles"] # {}
  /\ \E e \in alive :
       /\ Pushed(e)
       /\ bh[e] \in DOMAIN bodies
       /\ bodies[bh[e]].pos = pos[e]
       /\ bodies[bh[e]].vel = vel[e]
       /\ bodies[bh[e]].mass = mass[e]

\* C26: a dynamic entity that carries a Force component and has had a backend
\* body through a whole tick has, at the end of that tick, a Velocity that is
\* not zero.
C26_ForceMovesVelocity ==
  (TickEnd /\ tick >= 2) =>
    \A e \in alive :
      (Has(e, "DynamicBody") /\ Has(e, "Force") /\ bh[e] \in DOMAIN bodies)
        => vel[e] # <<0, 0>>

\* C27: when the body-handle removal stage starts, every BodyHandle that the
\* creation stage staged is a component of its entity.
C27_CreationCommittedBeforeRemoval ==
  pc = "remove_body_handles" =>
    \A x \in cmds["make_body_handles"] :
      (x.op = "add" /\ x.comp = "BodyHandle" /\ x.ent \in alive) => bh[x.ent] = x.handle

\* The bodies a step inserted for entity e.
NewBodiesOf(e) == { h \in DOMAIN bodies' \ DOMAIN bodies : bodies'[h].owner = e }

\* C28: the body pass inserts exactly one body for every entity that has a
\* body-kind tag and no BodyHandle, Dynamic with gravity disabled and the
\* tag's mass for DynamicBody, Static for StaticBody, Disabled for
\* DisabledBody, and inserts no body for any other entity.
C28_BodyMatchesTag ==
  [][ pc = "make_body_handles" =>
        \A e \in Entities :
          IF e \in alive /\ HasBodyTag(e) /\ bh[e] = NoHandle
            THEN /\ Cardinality(NewBodiesOf(e)) = 1
                 /\ \A h \in NewBodiesOf(e) :
                      /\ Has(e, "DynamicBody") =>
                           /\ bodies'[h].status = "Dynamic"
                           /\ ~bodies'[h].gravity
                           /\ bodies'[h].mass = mass[e]
                      /\ Has(e, "StaticBody") => bodies'[h].status = "Static"
                      /\ Has(e, "DisabledBody") => bodies'[h].status = "Disabled"
            ELSE NewBodiesOf(e) = {} ]_vars

\* The colliders a step inserted for entity e.
NewCollidersOf(e) == { h \in DOMAIN colliders' \ DOMAIN colliders : colliders'[h].owner = e }

\* C29: the collider pass inserts exactly one collider for every entity that
\* has a collider-shape tag, a BodyHandle and no ColliderHandle, anchored to
\* the entity's own body handle: a ball of the tag's radius for a
\* CircleCollider, a cuboid of half-extent side_length/2 for a SquareCollider.
C29_ColliderMatchesTag ==
  [][ pc = "make_collider_handles" =>
        \A e \in alive :
          (HasShapeTag(e) /\ bh[e] # NoHandle /\ ch[e] = NoHandle) =>
            /\ Cardinality(NewCollidersOf(e)) = 1
            /\ \A h \in NewCollidersOf(e) :
                 /\ colliders'[h].body = bh[e]
                 /\ comps[e] \cap ShapeTags = {"CircleCollider"} =>
                      (colliders'[h].shape = "Ball" /\ colliders'[h].size = radius[e])
                 /\ comps[e] \cap ShapeTags = {"SquareCollider"} =>
                      (colliders'[h].shape = "Cuboid" /\ colliders'[h].size * 2 = side[e]) ]_vars

C29_Witness ==
  /\ pc = "remove_collider_handles"
  /\ \E x \in cmds["make_collider_handles"] :
       /\ x.handle \in DOMAIN colliders
       /\ comps[x.ent] \cap ShapeTags = {"SquareCollider"}
       /\ colliders[x.handle].shape = "Cuboid"
       /\ colliders[x.handle].size * 2 = side[x.ent]
       /\ colliders[x.handle].body = bh[x.ent]
       /\ bh[x.ent] \in DOMAIN bodies

\* C30: no step inserts a backend collider for an entity that has a
\* collider-shape tag and no body-kind tag, and an entity that gets a
\* ColliderHandle has a BodyHandle when it gets it.
C30_NoColliderWithoutBody ==
  [][ \A e \in alive :
        /\ (HasShapeTag(e) /\ ~HasBodyTag(e)) => NewCollidersOf(e) = {}
        /\ (ch[e] = NoHandle /\ ch'[e] # NoHandle) => bh'[e] # NoHandle ]_vars

\* The order that visits the entities of S by ascending identity.
Ascending(S) == CHOOSE o \in Orders(S) : \A i, j \in DOMAIN o : i < j => o[i] < o[j]

\* The body table make_body_handles leaves when it visits entities in order o.
BodiesVisiting(o) ==
  [ h \in DOMAIN bodies \cup { nextBody + i : i \in DOMAIN o } |->
      IF h \in DOMAIN bodies THEN bodies[h] ELSE BodyDesc(o[h - nextBody]) ]

\* A backend table as the backend holds it: handle -> state, without the owner
\* the model records beside it.
Unowned(t) == [ h \in DOMAIN t |-> [ f \in DOMAIN t[h] \ {"owner"} |-> t[h][f] ] ]

\* C31: the backend body table a body pass leaves does not depend on the
\* order in which the pass visits the entities: it is the table the pass
\* leaves when it visits them by ascending identity.
C31_OrderIndependent ==
  [][ pc = "make_body_handles" =>
        Unowned(bodies') =
          Unowned(BodiesVisiting(Ascending({ e \in Entities : NeedsBody(e) }))) ]_vars

\* C32: remove_body is called only for a body that is live in the backend and
\* never twice for one handle, and remove_collider likewise for colliders.
C32_NoDoubleRelease ==
  [][ /\ pc = "remove_body_handles" =>
           \A e, f \in Entities :
             StaleBody(e) => /\ bh[e] \in DOMAIN bodies
                             /\ (StaleBody(f) /\ f # e) => bh[f] # bh[e]
      /\ pc = "remove_collider_handles" =>
           \A e, f \in Entities :
             StaleCollider(e) => /\ ch[e] \in DOMAIN colliders
                                 /\ (StaleCollider(f) /\ f # e) => ch[f] # ch[e] ]_vars

\* The body status make_body_handles gives an entity that carries body tag c.
KindOf(c) ==
  IF c = "DynamicBody" THEN "Dynamic" ELSE IF c = "StaticBody" THEN "Static" ELSE "Disabled"

\* C33: at the end of every tick the backend body an entity's BodyHandle
\* refers to has the kind of the entity's body-kind tag, with the tag's mass
\* for DynamicBody, also after the tag was switched to another kind.
C33_BodyKindFollowsTag ==
  TickEnd =>
    \A e \in alive : \A c \in BodyTags :
      (comps[e] \cap BodyTags = {c} /\ bh[e] \in DOMAIN bodies) =>
        /\ bodies[bh[e]].status = KindOf(c)
        /\ c = "DynamicBody" => bodies[bh[e]].mass = mass[e]

\* C34: at the end of every tick the collider an entity's ColliderHandle
\* refers to is live in the backend and is anchored to the body of the
\* entity's current BodyHandle, also after the body tag was removed and
\* re-added while the shape tag stayed.
C34_ColliderAnchoredToCurrentBody ==
  TickEnd =>
    \A e \in alive :
      ch[e] # NoHandle =>
        /\ ch[e] \in DOMAIN colliders
        /\ bh[e] # NoHandle
        /\ colliders[ch[e]].body = bh[e]

\* What the pull reads back for entity e from the body the push has just
\* written, with no step in between.
PushThenPull(e) ==
  LET b == PushedBody(bodies[bh[e]], e)
  IN [pos |-> b.pos, vel |-> b.vel, ori |-> b.ang]

\* C35: for a dynamic entity with a live BodyHandle that the pull visits,
\* the push followed at once by the pull leaves Position, Velocity and
\* Orientation equal to their values before the push, whatever the angle.
C35_PushPullRoundTrip ==
  pc = "entity_world_to_physics_world" =>
    \A e \in alive :
      (Pushed(e) /\ bh[e] \in DOMAIN bodies /\ e \in changed) =>
        PushThenPull(e) = [pos |-> pos[e], vel |-> vel[e], ori |-> ori[e]]

\* An entity whose BodyHandle names no live body of the backend.
Stale(e) == e \in alive /\ bh[e] # NoHandle /\ bh[e] \notin DOMAIN bodies

LoopComponents == {"DynamicBody", "StaticBody"} \cup Kinematic \cup Agentic

InitW ==
  /\ InitBackend
  /\ alive = Entities
  /\ comps \in [Entities -> SUBSET LoopComponents]
  /\ mass = [e \in Entities |-> IF "DynamicBody" \in comps[e] THEN 1 ELSE 0]
  /\ radius = [e \in Entities |-> 0]
  /\ side = [e \in Entities |-> 0]
  /\ pos = [e \in Entities |-> <<0, 0>>]
  /\ vel = [e \in Entities |-> <<0, 0>>]
  /\ ori = [e \in Entities |-> 0]
  /\ pc = "validate_physics_entities"
  /\ tick = 1

SpecW == InitW /\ [][NextV]_vars

DynamicMessages ==
  { "missing Position in DynamicBody", "missing Velocity in DynamicBody",
    "missing Orientation in DynamicBody",
    "There's a naughty StaticBody that really feels DynamicBody inside." }

\* C37: validation reports a violation of a DynamicBody entity whenever there
\* is one, before any of a StaticBody entity; on one DynamicBody entity the
\* first of missing Position, missing Velocity, missing Orientation, presence
\* of StaticBody; on one StaticBody entity the first of missing Position,
\* presence of Velocity, Speed, Acceleration, Force.  An entity with both
\* tags and all kinematic components is reported by the dynamic check.
C37_FirstViolationInCheckOrder ==
  Validated =>
    LET e == panic.ent
        msg == panic.msg
        cs == comps[panic.ent]
    IN /\ (\E f \in alive : Has(f, "DynamicBody") /\ DynamicViolation(comps[f]) # "")
            => (pc = "panicked" /\ msg \in DynamicMessages /\ Has(e, "DynamicBody"))
       /\ pc = "panicked" =>
            /\ msg = "missing Position in DynamicBody" => "Position" \notin cs
            /\ msg = "missing Velocity in DynamicBody"
                 => ("Position" \in cs /\ "Velocity" \notin cs)
            /\ msg = "missing Orientation in DynamicBody"
                 => ({"Position", "Velocity"} \subseteq cs /\ "Orientation" \notin cs)
            /\ msg = "There's a naughty StaticBody that really feels DynamicBody inside."
                 => (Kinematic \subseteq cs /\ "StaticBody" \in cs)
            /\ msg \notin DynamicMessages => "StaticBody" \in cs
            /\ msg = "missing Position in StaticBody" => "Position" \notin cs
            /\ msg = "StaticBody can't have a Velocity component"
                 => {"Position", "Velocity"} \subseteq cs
            /\ msg = "StaticBody can't have a Speed component"
                 => ({"Position", "Speed"} \subseteq cs /\ "Velocity" \notin cs)
            /\ msg = "StaticBody can't have a Acceleration component"
                 => ( /\ {"Position", "Acceleration"} \subseteq cs
                      /\ cs \cap {"Velocity", "Speed"} = {} )
            /\ msg = "StaticBody can't have a Force component"
                 => ( /\ {"Position", "Force"} \subseteq cs
                      /\ cs \cap {"Velocity", "Speed", "Acceleration"} = {} )
       /\ \A f \in alive :
            ({"DynamicBody", "StaticBody"} \cup Kinematic \subseteq comps[f] /\ e = f)
              => msg = "There's a naughty StaticBody that really feels DynamicBody inside."

C37_Witness ==
  /\ pc = "panicked"
  /\ panic.msg = "There's a naughty StaticBody that really feels DynamicBody inside."
  /\ {"DynamicBody", "StaticBody", "Force"} \cup Kinematic \subseteq comps[panic.ent]
  /\ \E f \in alive :
       /\ f # panic.ent
       /\ ~Has(f, "DynamicBody")
       /\ Has(f, "StaticBody")
       /\ StaticViolation(comps[f]) = "StaticBody can't have a Speed component"

\* ------------------------------------------------------------- movement
\* The movement system alone (it is written but not registered): lengths are
\* in tenths here, so that the cap 0.5 is the integer Half.
Half == 5

\* A finite f32 so large that its square, and its product with a frame time
\* above 1, are not finite (f32::MAX); and the f32 NaN.
Huge == 900
NaN == 2000

\* FrameTime.0, in whole units.
FrameTimes == { 1, 2 }

\* Velocities whose capped displacement is a whole number of tenths.
MoveVels ==
  { <<0, 0>>, <<3, 0>>, <<0, -4>>, <<3, 4>>, <<-4, 3>>, <<8, 0>>,
    <<Huge, 0>>, <<0, Huge>>, <<Infinity, 0>>, <<3, Infinity>> }

\* f32 multiplication of a velocity coordinate by a frame time.
Times(a, t) ==
  IF a = Infinity THEN Infinity
  ELSE IF a = Huge THEN (IF t > 1 THEN Infinity ELSE Huge)
  ELSE a * t

\* InnerSpace::magnitude2 in f32: the square of a Huge coordinate overflows.
Magnitude2(d) ==
  IF d[1] \in {Huge, Infinity} \/ d[2] \in {Huge, Infinity} THEN Infinity
  ELSE d[1] * d[1] + d[2] * d[2]

\* The vector of length Half along d, for a d of finite non-zero length.
HalfAlong(d) ==
  CHOOSE c \in (-Half..Half) \X (-Half..Half) :
    /\ c[1] * c[1] + c[2] * c[2] = Half * Half
    /\ c[1] * d[2] = c[2] * d[1]
    /\ c[1] * d[1] + c[2] * d[2] > 0

\* d.normalize() * 0.5 in f32: d * (1 / magnitude), so a magnitude that is not
\* finite sends every finite coordinate to 0 and an infinite one to NaN.
NormalizedHalf(d) ==
  IF Magnitude2(d) = Infinity
    THEN << IF d[1] = Infinity THEN NaN ELSE 0, IF d[2] = Infinity THEN NaN ELSE 0 >>
  ELSE HalfAlong(d)

\* The displacement `v` of movement for velocity w and frame time t.
Displacement(w, t) ==
  LET d == << Times(w[1], t), Times(w[2], t) >>
  IN IF Magnitude2(d) # Infinity /\ Magnitude2(d) < Half * Half THEN d
     ELSE NormalizedHalf(d)

\* pos.0 += v, by coordinate.
Advance(p, v) ==
  << IF v[1] = NaN THEN NaN ELSE p[1] + v[1], IF v[2] = NaN THEN NaN ELSE p[2] + v[2] >>

\* The query of movement: &mut Position and &mut Velocity.
Moves(e) == e \in alive /\ {"Position", "Velocity"} \subseteq comps[e]

\* One run of movement over the store, with the frame time t of the frame.
Movement ==
  /\ pc = "movement"
  /\ \E t \in FrameTimes :
       /\ pos' = [e \in Entities |->
                    IF Moves(e) /\ FiniteVec(vel[e])
                      THEN Advance(pos[e], Displacement(vel[e], t)) ELSE pos[e]]
  /\ vel' = [e \in Entities |->
               IF Moves(e) /\ ~FiniteVec(vel[e]) THEN <<0, 0>> ELSE vel[e]]
  /\ pc' = "end"
  /\ UNCHANGED << ecsTags, ori, ecsHandles, backend, cmds, tick, edits, panic, quiet >>

InitM ==
  /\ InitBackend
  /\ alive = Entities
  /\ comps \in [Entities -> KinProfiles]
  /\ mass = [e \in Entities |-> 0]
  /\ radius = [e \in Entities |-> 0]
  /\ side = [e \in Entities |-> 0]
  /\ pos = [e \in Entities |-> <<10, 20>>]
  /\ vel \in [Entities -> MoveVels]
  /\ \A e \in Entities : "Velocity" \notin comps[e] => vel[e] = <<0, 0>>
  /\ ori \in [Entities -> OriInit]
  /\ pc = "movement"
  /\ tick = 0

SpecM == InitM /\ [][Movement]_vars

\* The displacement velocity w gives in frame time t when its length is
\* capped at Half: w * t below the cap, and Half along w from the cap on.
CappedDisplacement(w, t) ==
  LET d == << w[1] * t, w[2] * t >>
  IN IF d[1] * d[1] + d[2] * d[2] < Half * Half THEN d ELSE HalfAlong(d)

\* C38: movement sets a velocity with a non-finite coordinate to (0,0) and
\* leaves the position; for any other velocity it leaves the velocity and
\* advances the position by velocity times frame time, the displacement
\* capped at length 0.5.
C38_MovementClampsAndCaps ==
  [][ pc = "movement" =>
        \E t \in FrameTimes :
          \A e \in Entities :
            Moves(e) =>
              IF ~FiniteVec(vel[e])
                THEN vel'[e] = <<0, 0>> /\ pos'[e] = pos[e]
              ELSE /\ vel'[e] = vel[e]
                   /\ pos'[e] = << pos[e][1] + CappedDisplacement(vel[e], t)[1],
                                   pos[e][2] + CappedDisplacement(vel[e], t)[2] >> ]_vars

====
